---------------------------- MODULE Spec2Model ----------------------------
(***************************************************************************)
(* Shot prediction of DeoTime/ball: the path tracer of pool-engine.js      *)
(* (PoolEngine) and of overlay.js (DesktopPoolOverlay and                  *)
(* PoolPredictionOverlay), driven by one drawPredictions frame.            *)
(*                                                                         *)
(* JavaScript numbers are modelled as exact rationals <<n, d>> in lowest   *)
(* terms with d > 0; the result of 0/0 is NaN == <<0, 0>>.  Math.sqrt is   *)
(* exact on squares of rationals and rounded down to a multiple of         *)
(* 1/SqrtScale otherwise.  Floating-point rounding is not modelled.        *)
(***************************************************************************)
EXTENDS Integers, Sequences, FiniteSets, TLC

(***************************************************************************)
(* Bounds of the model.                                                    *)
(***************************************************************************)
\* largest value of the "Max Bounces" slider that is explored
MaxLevel == 2
\* resolution of Math.sqrt on arguments that are not squares of rationals
SqrtScale == 10

(***************************************************************************)
(* JavaScript number arithmetic on rationals.                              *)
(***************************************************************************)
Abs(n) == IF n < 0 THEN -n ELSE n

RECURSIVE GCD(_, _)
GCD(a, b) == IF b = 0 THEN a ELSE GCD(b, a % b)

NaN == <<0, 0>>

IsNaN(a) == a[2] = 0

\* the rational n/d in lowest terms, d # 0
Norm(n, d) ==
    LET g == GCD(Abs(n), Abs(d))
        s == IF d < 0 THEN -1 ELSE 1
    IN  <<s * (n \div g), s * (d \div g)>>

\* an integer literal
Num(n) == <<n, 1>>

Zero == Num(0)

RNeg(a) == IF IsNaN(a) THEN NaN ELSE <<-a[1], a[2]>>

RAdd(a, b) ==
    IF IsNaN(a) \/ IsNaN(b) THEN NaN
    ELSE LET g == GCD(a[2], b[2])
         IN  Norm(a[1] * (b[2] \div g) + b[1] * (a[2] \div g), (a[2] \div g) * b[2])

RSub(a, b) == RAdd(a, RNeg(b))

RMul(a, b) ==
    IF IsNaN(a) \/ IsNaN(b) THEN NaN
    ELSE LET g1 == GCD(Abs(a[1]), b[2])
             g2 == GCD(Abs(b[1]), a[2])
         IN  Norm((a[1] \div g1) * (b[1] \div g2), (a[2] \div g2) * (b[2] \div g1))

\* a / b; the only division by zero the code can reach is 0/0 (NaN)
RDiv(a, b) ==
    IF IsNaN(a) \/ IsNaN(b) \/ b[1] = 0 THEN NaN
    ELSE RMul(a, Norm(b[2], b[1]))

\* comparisons; every comparison with NaN is false
RLt(a, b) == ~IsNaN(a) /\ ~IsNaN(b) /\ RSub(a, b)[1] < 0

RGt(a, b) == RLt(b, a)

RLe(a, b) == ~IsNaN(a) /\ ~IsNaN(b) /\ RSub(a, b)[1] <= 0

RGe(a, b) == RLe(b, a)

\* JavaScript === on numbers
REq(a, b) == ~IsNaN(a) /\ ~IsNaN(b) /\ a = b

RECURSIVE IsqrtBetween(_, _, _)
\* the largest r in lo..hi with r * r <= n, given lo * lo <= n
IsqrtBetween(n, lo, hi) ==
    IF lo >= hi THEN lo
    ELSE LET mid == (lo + hi + 1) \div 2
         IN  IF mid * mid <= n THEN IsqrtBetween(n, mid, hi)
                               ELSE IsqrtBetween(n, lo, mid - 1)

\* floor of the square root of a natural number below 2^30
Isqrt(n) == IsqrtBetween(n, 0, IF n < 32767 THEN n ELSE 32767)

IsSquareInt(n) == Isqrt(n) * Isqrt(n) = n

\* Math.sqrt of a natural number: exact on squares, otherwise rounded down
\* to a multiple of 1/SqrtScale
SqrtInt(m) ==
    IF IsSquareInt(m) THEN Num(Isqrt(m))
    ELSE Norm(Isqrt(m * SqrtScale * SqrtScale), SqrtScale)

\* Math.sqrt(a * a + b * b), evaluated on the numerators of a and b over
\* their common denominator with the common factor taken out of the root
Hypot(a, b) ==
    IF IsNaN(a) \/ IsNaN(b) THEN NaN
    ELSE LET g == GCD(a[2], b[2])
             p == Abs(a[1]) * (b[2] \div g)
             q == Abs(b[1]) * (a[2] \div g)
             D == (a[2] \div g) * b[2]
             f == GCD(p, q)
         IN  IF f = 0 THEN Zero
             ELSE RMul(Norm(f, D), SqrtInt((p \div f) * (p \div f) + (q \div f) * (q \div f)))

(***************************************************************************)
(* Program constants.                                                      *)
(***************************************************************************)
\* PoolEngine.ballRadius
ballRadius == 12
\* drawPredictions: "Don't draw if mouse is too close"
MinAimLength == 10

Null == [null |-> TRUE]

IsNull(v) == "null" \in DOMAIN v

(***************************************************************************)
(* Geometry primitives.                                                    *)
(***************************************************************************)
calculateDirection(from, to) ==
    LET dx == RSub(to.x, from.x)
        dy == RSub(to.y, from.y)
        length == Hypot(dx, dy)
    IN  [dx |-> RDiv(dx, length), dy |-> RDiv(dy, length), length |-> length]

\* mutant: a horizontal wall always sends the ray upward
reflectDirection_AlwaysUp(dir, wall) ==
    IF wall = "horizontal"
    THEN [dx |-> dir.dx, dy |-> IF RGt(dir.dy, Zero) THEN RNeg(dir.dy) ELSE dir.dy]
    ELSE IF wall = "vertical" THEN [dx |-> RNeg(dir.dx), dy |-> dir.dy]
    ELSE dir

reflectDirection(dir, wall) ==
    IF wall = "horizontal" THEN [dx |-> dir.dx, dy |-> RNeg(dir.dy)]
    ELSE IF wall = "vertical" THEN [dx |-> RNeg(dir.dx), dy |-> dir.dy]
    ELSE dir

(***************************************************************************)
(* Boundary intersection resolver.  Each XxxCandidate is the sequence of   *)
(* the zero or one records that the edge's block pushes on intersections;  *)
(* the field "edge" is not in the code, it records which block pushed.     *)
(***************************************************************************)
\* mutant: the top edge is pushed with the orientation of a side edge
TopCandidate_Vertical(walls, pos, dir, maxDistance) ==
    IF RLt(dir.dy, Zero)
    THEN LET t == RDiv(RSub(walls.top, pos.y), dir.dy)
             x == RAdd(pos.x, RMul(dir.dx, t))
         IN  IF RGt(t, Zero) /\ RLt(t, maxDistance)
                /\ RGe(x, walls.left) /\ RLe(x, walls.right)
             THEN <<[x |-> x, y |-> walls.top, distance |-> t,
                     wall |-> "vertical", edge |-> "top"]>>
             ELSE <<>>
    ELSE <<>>

TopCandidate(walls, pos, dir, maxDistance) ==
    IF RLt(dir.dy, Zero)
    THEN LET t == RDiv(RSub(walls.top, pos.y), dir.dy)
             x == RAdd(pos.x, RMul(dir.dx, t))
         IN  IF RGt(t, Zero) /\ RLt(t, maxDistance)
                /\ RGe(x, walls.left) /\ RLe(x, walls.right)
             THEN <<[x |-> x, y |-> walls.top, distance |-> t,
                     wall |-> "horizontal", edge |-> "top"]>>
             ELSE <<>>
    ELSE <<>>

BottomCandidate(walls, pos, dir, maxDistance) ==
    IF RGt(dir.dy, Zero)
    THEN LET t == RDiv(RSub(walls.bottom, pos.y), dir.dy)
             x == RAdd(pos.x, RMul(dir.dx, t))
         IN  IF RGt(t, Zero) /\ RLt(t, maxDistance)
                /\ RGe(x, walls.left) /\ RLe(x, walls.right)
             THEN <<[x |-> x, y |-> walls.bottom, distance |-> t,
                     wall |-> "horizontal", edge |-> "bottom"]>>
             ELSE <<>>
    ELSE <<>>

LeftCandidate(walls, pos, dir, maxDistance) ==
    IF RLt(dir.dx, Zero)
    THEN LET t == RDiv(RSub(walls.left, pos.x), dir.dx)
             y == RAdd(pos.y, RMul(dir.dy, t))
         IN  IF RGt(t, Zero) /\ RLt(t, maxDistance)
                /\ RGe(y, walls.top) /\ RLe(y, walls.bottom)
             THEN <<[x |-> walls.left, y |-> y, distance |-> t,
                     wall |-> "vertical", edge |-> "left"]>>
             ELSE <<>>
    ELSE <<>>

RightCandidate(walls, pos, dir, maxDistance) ==
    IF RGt(dir.dx, Zero)
    THEN LET t == RDiv(RSub(walls.right, pos.x), dir.dx)
             y == RAdd(pos.y, RMul(dir.dy, t))
         IN  IF RGt(t, Zero) /\ RLt(t, maxDistance)
                /\ RGe(y, walls.top) /\ RLe(y, walls.bottom)
             THEN <<[x |-> walls.right, y |-> y, distance |-> t,
                     wall |-> "vertical", edge |-> "right"]>>
             ELSE <<>>
    ELSE <<>>

RECURSIVE ReduceClosest_LastWins(_, _, _)
\* mutant: of two intersections at the same distance the later one is kept
ReduceClosest_LastWins(intersections, i, closest) ==
    IF i > Len(intersections) THEN closest
    ELSE ReduceClosest_LastWins(intersections, i + 1,
            IF RLe(intersections[i].distance, closest.distance)
            THEN intersections[i] ELSE closest)

RECURSIVE ReduceClosest(_, _, _)
\* intersections.reduce((closest, curr) => curr.distance < closest.distance ? curr : closest)
\* continued from element i with accumulator closest
ReduceClosest(intersections, i, closest) ==
    IF i > Len(intersections) THEN closest
    ELSE ReduceClosest(intersections, i + 1,
            IF RLt(intersections[i].distance, closest.distance)
            THEN intersections[i] ELSE closest)

findWallIntersection(walls, pos, dir, maxDistance) ==
    LET intersections == TopCandidate(walls, pos, dir, maxDistance)
                         \o BottomCandidate(walls, pos, dir, maxDistance)
                         \o LeftCandidate(walls, pos, dir, maxDistance)
                         \o RightCandidate(walls, pos, dir, maxDistance)
    IN  IF Len(intersections) > 0
        THEN ReduceClosest(intersections, 2, intersections[1])
        ELSE Null

(***************************************************************************)
(* Obstacle intersection resolver (PoolEngine only).  A ball is referred   *)
(* to by its index in targetBalls; excludeBall = 0 is the default null.    *)
(***************************************************************************)
RECURSIVE BallLoop_NoExclude(_, _, _, _, _, _, _)
\* mutant: the excluded ball is checked like every other ball
BallLoop_NoExclude(targetBalls, excludeBall, pos, dir, i, closestIntersection, closestDistance) ==
    IF i > Len(targetBalls) THEN closestIntersection
    ELSE LET ball == targetBalls[i]
             toBall == [x |-> RSub(ball.x, pos.x), y |-> RSub(ball.y, pos.y)]
             projection == RAdd(RMul(toBall.x, dir.dx), RMul(toBall.y, dir.dy))
             closestPoint == [x |-> RAdd(pos.x, RMul(dir.dx, projection)),
                              y |-> RAdd(pos.y, RMul(dir.dy, projection))]
             distToBall == Hypot(RSub(closestPoint.x, ball.x),
                                 RSub(closestPoint.y, ball.y))
             combinedRadius == Num(ballRadius * 2)
             hit == RGt(projection, Zero) /\ RLt(distToBall, combinedRadius)
                    /\ RLt(projection, closestDistance)
         IN  BallLoop_NoExclude(targetBalls, excludeBall, pos, dir, i + 1,
                IF hit THEN [ball |-> i, distance |-> projection]
                       ELSE closestIntersection,
                IF hit THEN projection ELSE closestDistance)

RECURSIVE BallLoop(_, _, _, _, _, _, _)
\* the for loop over ballsToCheck, continued from index i
BallLoop(targetBalls, excludeBall, pos, dir, i, closestIntersection, closestDistance) ==
    IF i > Len(targetBalls) THEN closestIntersection
    ELSE IF i = excludeBall
         THEN BallLoop(targetBalls, excludeBall, pos, dir, i + 1,
                       closestIntersection, closestDistance)
    ELSE LET ball == targetBalls[i]
             toBall == [x |-> RSub(ball.x, pos.x), y |-> RSub(ball.y, pos.y)]
             projection == RAdd(RMul(toBall.x, dir.dx), RMul(toBall.y, dir.dy))
             closestPoint == [x |-> RAdd(pos.x, RMul(dir.dx, projection)),
                              y |-> RAdd(pos.y, RMul(dir.dy, projection))]
             distToBall == Hypot(RSub(closestPoint.x, ball.x),
                                 RSub(closestPoint.y, ball.y))
             combinedRadius == Num(ballRadius * 2)
             hit == RGt(projection, Zero) /\ RLt(distToBall, combinedRadius)
                    /\ RLt(projection, closestDistance)
         IN  BallLoop(targetBalls, excludeBall, pos, dir, i + 1,
                IF hit THEN [ball |-> i, distance |-> projection]
                       ELSE closestIntersection,
                IF hit THEN projection ELSE closestDistance)

findBallIntersection(targetBalls, pos, dir, maxDistance, excludeBall) ==
    BallLoop(targetBalls, excludeBall, pos, dir, 1, Null, maxDistance)

(***************************************************************************)
(* Path tracer.  The locals of one tracePath call are a record             *)
(* [path, currentPos, currentDir, remainingDistance, currentBounces, pc];  *)
(* self is the object the method is called on, [shell, walls, targetBalls].*)
(* A path point is a record with x and y and, when the code sets them, the *)
(* property bounce or hitBall.                                             *)
(***************************************************************************)
\* mutant: the path starts empty instead of holding the start position
TraceEnter_EmptyPath(startPos, direction, maxDistance) ==
    [path |-> <<>>,
     currentPos |-> startPos,
     currentDir |-> direction,
     remainingDistance |-> maxDistance,
     currentBounces |-> 0,
     pc |-> "loop"]

\* the state of tracePath on reaching the while loop
TraceEnter(startPos, direction, maxDistance) ==
    [path |-> <<[x |-> startPos.x, y |-> startPos.y]>>,
     currentPos |-> startPos,
     currentDir |-> direction,
     remainingDistance |-> maxDistance,
     currentBounces |-> 0,
     pc |-> "loop"]

\* mutant: the loop allows twice the bounces
LoopCond_Double(s, bounces) ==
    RGt(s.remainingDistance, Zero) /\ s.currentBounces <= 2 * bounces

\* mutant: the loop allows one bounce more
LoopCond_OneMore(s, bounces) ==
    RGt(s.remainingDistance, Zero) /\ s.currentBounces <= bounces + 1

\* the condition of the while loop
LoopCond(s, bounces) ==
    RGt(s.remainingDistance, Zero) /\ s.currentBounces <= bounces

\* mutant: the overlay shells check for a collision with the three default balls
BallHit_OverlaysToo(self, s) ==
    findBallIntersection(IF self.shell = "PoolEngine" THEN self.targetBalls
                         ELSE <<[x |-> RMul(RAdd(self.walls.right, Num(30)), Norm(3, 5)),
                                 y |-> RMul(RAdd(self.walls.bottom, Num(30)), Norm(3, 10))],
                                [x |-> RMul(RAdd(self.walls.right, Num(30)), Norm(13, 20)),
                                 y |-> RMul(RAdd(self.walls.bottom, Num(30)), Norm(1, 2))],
                                [x |-> RMul(RAdd(self.walls.right, Num(30)), Norm(7, 10)),
                                 y |-> RMul(RAdd(self.walls.bottom, Num(30)), Norm(7, 10))]>>,
                         s.currentPos, s.currentDir, s.remainingDistance, 0)

\* only PoolEngine.tracePath checks for a ball collision
BallHit(self, s) ==
    IF self.shell = "PoolEngine"
    THEN findBallIntersection(self.targetBalls, s.currentPos, s.currentDir,
                              s.remainingDistance, 0)
    ELSE Null

WallHit(self, s) ==
    findWallIntersection(self.walls, s.currentPos, s.currentDir, s.remainingDistance)

\* mutant: a wall hit is taken whenever there is one
TraceBranch_WallFirst(self, s) ==
    LET ballHit == BallHit(self, s)
        wallHit == WallHit(self, s)
    IN  IF ~IsNull(wallHit) THEN "wall"
        ELSE IF ~IsNull(ballHit) THEN "ball" ELSE "none"

\* mutant: a ball at the same distance as the wall is taken first
TraceBranch_BallOnTie(self, s) ==
    LET ballHit == BallHit(self, s)
        wallHit == WallHit(self, s)
    IN  IF ~IsNull(ballHit)
           /\ (IsNull(wallHit) \/ RLe(ballHit.distance, wallHit.distance))
        THEN "ball"
        ELSE IF ~IsNull(wallHit) THEN "wall" ELSE "none"

\* "Determine what we hit first"
TraceBranch(self, s) ==
    LET ballHit == BallHit(self, s)
        wallHit == WallHit(self, s)
    IN  IF ~IsNull(ballHit)
           /\ (IsNull(wallHit) \/ RLt(ballHit.distance, wallHit.distance))
        THEN "ball"
        ELSE IF ~IsNull(wallHit) THEN "wall" ELSE "none"

\* mutant: a ball hit is treated like a bounce and the loop goes on
BallBranch_Continue(self, s) ==
    LET ballHit == BallHit(self, s)
        endX == RAdd(s.currentPos.x, RMul(s.currentDir.dx, ballHit.distance))
        endY == RAdd(s.currentPos.y, RMul(s.currentDir.dy, ballHit.distance))
    IN  [s EXCEPT !.path = Append(@, [x |-> endX, y |-> endY, hitBall |-> ballHit.ball]),
                  !.currentPos = [x |-> endX, y |-> endY],
                  !.remainingDistance = RSub(@, ballHit.distance),
                  !.currentBounces = @ + 1]

\* "Hit a ball": push the hit point and break
BallBranch(self, s) ==
    LET ballHit == BallHit(self, s)
        endX == RAdd(s.currentPos.x, RMul(s.currentDir.dx, ballHit.distance))
        endY == RAdd(s.currentPos.y, RMul(s.currentDir.dy, ballHit.distance))
    IN  [s EXCEPT !.path = Append(@, [x |-> endX, y |-> endY, hitBall |-> ballHit.ball]),
                  !.pc = "return"]

\* mutant: the wall branch does not spend the distance of the hit
WallBranch_NoSpend(self, s) ==
    LET wallHit == WallHit(self, s)
    IN  [s EXCEPT !.path = Append(@, [x |-> wallHit.x, y |-> wallHit.y, bounce |-> TRUE]),
                  !.currentPos = [x |-> wallHit.x, y |-> wallHit.y],
                  !.currentDir = reflectDirection(s.currentDir, wallHit.wall),
                  !.currentBounces = @ + 1]

\* mutant: the wall branch does not count the bounce
WallBranch_NoCount(self, s) ==
    LET wallHit == WallHit(self, s)
    IN  [s EXCEPT !.path = Append(@, [x |-> wallHit.x, y |-> wallHit.y, bounce |-> TRUE]),
                  !.currentPos = [x |-> wallHit.x, y |-> wallHit.y],
                  !.currentDir = reflectDirection(s.currentDir, wallHit.wall),
                  !.remainingDistance = RSub(@, wallHit.distance)]

\* "Hit a wall": push the bounce point, reflect, spend the distance
WallBranch(self, s) ==
    LET wallHit == WallHit(self, s)
    IN  [s EXCEPT !.path = Append(@, [x |-> wallHit.x, y |-> wallHit.y, bounce |-> TRUE]),
                  !.currentPos = [x |-> wallHit.x, y |-> wallHit.y],
                  !.currentDir = reflectDirection(s.currentDir, wallHit.wall),
                  !.remainingDistance = RSub(@, wallHit.distance),
                  !.currentBounces = @ + 1]

\* "No collision, draw to max distance": push the end point and break
NoneBranch(self, s) ==
    LET endX == RAdd(s.currentPos.x, RMul(s.currentDir.dx, s.remainingDistance))
        endY == RAdd(s.currentPos.y, RMul(s.currentDir.dy, s.remainingDistance))
    IN  [s EXCEPT !.path = Append(@, [x |-> endX, y |-> endY]),
                  !.pc = "return"]

\* one execution of the loop body
TraceStep(self, s) ==
    LET branch == TraceBranch(self, s)
    IN  IF branch = "ball" THEN BallBranch(self, s)
        ELSE IF branch = "wall" THEN WallBranch(self, s)
        ELSE NoneBranch(self, s)

RECURSIVE TraceLoop(_, _, _)
\* the while loop run to its end
TraceLoop(self, s, bounces) ==
    IF s.pc = "loop" /\ LoopCond(s, bounces)
    THEN TraceLoop(self, TraceStep(self, s), bounces)
    ELSE s

\* the value returned by self.tracePath(startPos, direction, maxDistance, bounces)
tracePath(self, startPos, direction, maxDistance, bounces) ==
    TraceLoop(self, TraceEnter(startPos, direction, maxDistance), bounces).path

\* mutant: the diagonal is divided by the multiplier
MaxPredictionDistance_Divided(walls, predictionLengthMultiplier) ==
    LET tableWidth == RSub(walls.right, walls.left)
        tableHeight == RSub(walls.bottom, walls.top)
        tableDiagonal == Hypot(tableWidth, tableHeight)
    IN  RDiv(tableDiagonal, predictionLengthMultiplier)

\* tableDiagonal * predictionLengthMultiplier in drawPredictions
MaxPredictionDistance(walls, predictionLengthMultiplier) ==
    LET tableWidth == RSub(walls.right, walls.left)
        tableHeight == RSub(walls.bottom, walls.top)
        tableDiagonal == Hypot(tableWidth, tableHeight)
    IN  RMul(tableDiagonal, predictionLengthMultiplier)

(***************************************************************************)
(* Inputs of one frame.                                                    *)
(***************************************************************************)
Pt(x, y) == [x |-> Num(x), y |-> Num(y)]

Walls(l, t, r, bt) == [left |-> Num(l), top |-> Num(t), right |-> Num(r), bottom |-> Num(bt)]

Shells == {"PoolEngine", "DesktopPoolOverlay", "PoolPredictionOverlay"}

\* the 800 x 600 table of pool-engine.js and a 400 x 300 boundary picked by two clicks
Tables == {Walls(30, 30, 770, 570), Walls(30, 30, 430, 330)}

\* the three target balls PoolEngine places on a canvas whose walls are inset by 30
DefaultBalls(w) ==
    LET width == RAdd(w.right, Num(30))
        height == RAdd(w.bottom, Num(30))
    IN  <<[x |-> RMul(width, Norm(3, 5)), y |-> RMul(height, Norm(3, 10))],
          [x |-> RMul(width, Norm(13, 20)), y |-> RMul(height, Norm(1, 2))],
          [x |-> RMul(width, Norm(7, 10)), y |-> RMul(height, Norm(7, 10))]>>

\* a single target ball at (400, 300)
OneBall == <<Pt(400, 300)>>

\* a single target ball 20 from the ray of direction (3/5, -4/5) out of (180, 180),
\* with its centre projected on the point where that ray meets the top wall
CushionBall == <<[x |-> Norm(617, 2), y |-> Num(42)]>>

BallLists(sh, w) ==
    IF sh = "PoolEngine" THEN {DefaultBalls(w), OneBall, CushionBall} ELSE {<<>>}

InsideStrict(w, p) ==
    /\ RGt(p.x, w.left) /\ RLt(p.x, w.right)
    /\ RGt(p.y, w.top) /\ RLt(p.y, w.bottom)

Cues == {Pt(100, 300), Pt(200, 300), Pt(590, 330), Pt(180, 180), Pt(280, 130)}

\* pointer position relative to the cue ball; every offset has a rational length
Offsets == {<<0, 0>>, <<3, 4>>, <<6, 8>>, <<0, -300>>, <<670, 0>>,
            <<-40, -30>>, <<30, -40>>, <<-12, 5>>}

\* values of the "Prediction Length" slider (1-5x table diagonal)
Multipliers == {Num(1), Norm(3, 2), Num(2), Num(3), Num(5)}

(***************************************************************************)
(* State: the fields of the shell object that a frame reads, the locals of *)
(* drawPredictions and of the tracePath call in progress, and the control  *)
(* position pc.  iterations, lastHit and prevDir are history variables:    *)
(* the number of loop-body executions of the current call, the wall hit    *)
(* taken by the last wall branch and the direction it reflected.           *)
(***************************************************************************)
VARIABLES shell, walls, targetBalls, cueBall, mousePos, maxBounces,
          predictionLengthMultiplier,
          aimDir, maxPredictionDistance, b, drawn, pc,
          path, currentPos, currentDir, remainingDistance, currentBounces,
          iterations, lastHit, prevDir

(***************************************************************************)
(* State of the overlay shells and of the Electron main process.  The      *)
(* setup fields of the overlay object, the disabled flags of its buttons   *)
(* and the bounding rectangle of the canvas; the window of the main        *)
(* process with its visibility flag, the platform, and the messages the    *)
(* renderer has sent that the main process has not handled yet.            *)
(* lastEvent, sinceSetup and frameLog are history variables: the last UI   *)
(* event dispatched, the pocket clicks of the user since the setup button  *)
(* was clicked, and what the animation frames after that event render.     *)
(***************************************************************************)
VARIABLES setupMode, clickCount, topLeftPocket, bottomRightPocket,
          overlayEnabled, isDragging, setupBtnDisabled, toggleBtnDisabled,
          canvasRect,
          overlayWindow, isOverlayVisible, ipc, platform, app,
          lastEvent, sinceSetup, frameLog

setup == <<setupMode, clickCount, topLeftPocket, bottomRightPocket,
           overlayEnabled, isDragging, setupBtnDisabled, toggleBtnDisabled>>

host == <<overlayWindow, isOverlayVisible, ipc, platform, app>>

ghost == <<lastEvent, sinceSetup, frameLog>>

\* everything a prediction frame reads and does not write
fields == <<shell, walls, targetBalls, cueBall, mousePos, maxBounces,
            predictionLengthMultiplier, setup, canvasRect, host, ghost>>

frame == <<aimDir, maxPredictionDistance, b, drawn>>

locals == <<path, currentPos, currentDir, remainingDistance, currentBounces>>

history == <<iterations, lastHit, prevDir>>

vars == <<fields, frame, pc, locals, history>>

Self == [shell |-> shell, walls |-> walls, targetBalls |-> targetBalls]

Locals ==
    [path |-> path, currentPos |-> currentPos, currentDir |-> currentDir,
     remainingDistance |-> remainingDistance, currentBounces |-> currentBounces,
     pc |-> pc]

SetLocals(n) ==
    /\ path' = n.path
    /\ currentPos' = n.currentPos
    /\ currentDir' = n.currentDir
    /\ remainingDistance' = n.remainingDistance
    /\ currentBounces' = n.currentBounces
    /\ pc' = n.pc

\* a null coordinate of cueBall = { x: null, y: null }
NullNum == <<>>

\* the window createOverlay leaves behind: click-through and hidden
createOverlay == [visible |-> FALSE, ignoreMouseEvents |-> TRUE]

NoFrame == [kind |-> "none"]

NoSetup == [active |-> FALSE, clicks |-> <<>>]

\* the overlay fields in a state in which a frame traces: the two pockets are
\* set, the overlay is enabled and, in the Electron shell, the window is shown
FrameReady ==
    /\ setupMode = FALSE
    /\ clickCount = (IF shell = "PoolEngine" THEN 0 ELSE 2)
    /\ topLeftPocket = (IF shell = "PoolEngine" THEN Null
                        ELSE [x |-> walls.left, y |-> walls.top])
    /\ bottomRightPocket = (IF shell = "PoolEngine" THEN Null
                            ELSE [x |-> walls.right, y |-> walls.bottom])
    /\ overlayEnabled = TRUE
    /\ isDragging = FALSE
    /\ setupBtnDisabled = FALSE
    /\ toggleBtnDisabled = FALSE
    /\ canvasRect = [left |-> Zero, top |-> Zero]
    /\ overlayWindow = (IF shell = "DesktopPoolOverlay"
                        THEN [createOverlay EXCEPT !.visible = TRUE] ELSE Null)
    /\ isOverlayVisible = (shell = "DesktopPoolOverlay")
    /\ ipc = <<>>
    /\ platform = "darwin"
    /\ app = "running"
    /\ lastEvent = [target |-> "none", setup |-> "none"]
    /\ sinceSetup = NoSetup
    /\ frameLog = NoFrame

Init ==
    /\ shell \in Shells
    /\ walls \in Tables
    /\ targetBalls \in BallLists(shell, walls)
    /\ cueBall \in {c \in Cues : InsideStrict(walls, c)}
    /\ \E o \in Offsets :
          mousePos = [x |-> RAdd(cueBall.x, Num(o[1])), y |-> RAdd(cueBall.y, Num(o[2]))]
    /\ maxBounces \in 0..MaxLevel
    /\ predictionLengthMultiplier \in Multipliers
    /\ aimDir = Null
    /\ maxPredictionDistance = Zero
    /\ b = 0
    /\ drawn = <<>>
    /\ pc = "idle"
    /\ path = <<>>
    /\ currentPos = Null
    /\ currentDir = Null
    /\ remainingDistance = Zero
    /\ currentBounces = 0
    /\ iterations = 0
    /\ lastHit = Null
    /\ prevDir = Null
    /\ FrameReady

(***************************************************************************)
(* drawPredictions.                                                        *)
(***************************************************************************)
\* "Don't draw if mouse is too close"
DrawPredictionsSkip ==
    /\ pc = "idle"
    /\ LET d == calculateDirection(cueBall, mousePos)
       IN  /\ RLt(d.length, Num(MinAimLength))
           /\ aimDir' = d
    /\ pc' = "frameDone"
    /\ UNCHANGED <<fields, maxPredictionDistance, b, drawn, locals, history>>

\* mutant: the threshold of 10 is dropped, only a zero aim length returns early
DrawPredictionsAim_NoThreshold ==
    /\ pc = "idle"
    /\ LET d == calculateDirection(cueBall, mousePos)
       IN  /\ RGt(d.length, Zero)
           /\ aimDir' = d
    /\ maxPredictionDistance' = MaxPredictionDistance(walls, predictionLengthMultiplier)
    /\ b' = 0
    /\ pc' = "call"
    /\ UNCHANGED <<fields, drawn, locals, history>>

\* the aim direction and the maximum prediction distance, then the for loop
DrawPredictionsAim ==
    /\ pc = "idle"
    /\ LET d == calculateDirection(cueBall, mousePos)
       IN  /\ ~RLt(d.length, Num(MinAimLength))
           /\ aimDir' = d
    /\ maxPredictionDistance' = MaxPredictionDistance(walls, predictionLengthMultiplier)
    /\ b' = 0
    /\ pc' = "call"
    /\ UNCHANGED <<fields, drawn, locals, history>>

\* for (b = 0; b <= maxBounces; ...): this.tracePath(this.cueBall, aimDir, ..., b)
TracePathCall ==
    /\ pc = "call"
    /\ b <= maxBounces
    /\ SetLocals(TraceEnter(cueBall, aimDir, maxPredictionDistance))
    /\ iterations' = 0
    /\ lastHit' = Null
    /\ prevDir' = Null
    /\ UNCHANGED <<fields, frame>>

\* mutant: the for loop may stop before the last bounce level
DrawPredictionsEnd_Early ==
    /\ pc = "call"
    /\ b >= maxBounces
    /\ pc' = "frameDone"
    /\ UNCHANGED <<fields, frame, locals, history>>

\* the for loop ends
DrawPredictionsEnd ==
    /\ pc = "call"
    /\ b > maxBounces
    /\ pc' = "frameDone"
    /\ UNCHANGED <<fields, frame, locals, history>>

(***************************************************************************)
(* tracePath, one loop iteration per action.                               *)
(***************************************************************************)
TraceBallHit ==
    /\ pc = "loop"
    /\ LoopCond(Locals, b)
    /\ TraceBranch(Self, Locals) = "ball"
    /\ SetLocals(BallBranch(Self, Locals))
    /\ iterations' = iterations + 1
    /\ UNCHANGED <<fields, frame, lastHit, prevDir>>

\* mutant: currentPos aliases the start position, the wall branch overwrites it
TraceWallHit_Aliased ==
    /\ pc = "loop"
    /\ LoopCond(Locals, b)
    /\ TraceBranch(Self, Locals) = "wall"
    /\ SetLocals(WallBranch(Self, Locals))
    /\ iterations' = iterations + 1
    /\ lastHit' = WallHit(Self, Locals)
    /\ prevDir' = currentDir
    /\ cueBall' = WallBranch(Self, Locals).currentPos
    /\ UNCHANGED <<shell, walls, targetBalls, mousePos, maxBounces,
                   predictionLengthMultiplier, setup, canvasRect, host, ghost,
                   frame>>

TraceWallHit ==
    /\ pc = "loop"
    /\ LoopCond(Locals, b)
    /\ TraceBranch(Self, Locals) = "wall"
    /\ SetLocals(WallBranch(Self, Locals))
    /\ iterations' = iterations + 1
    /\ lastHit' = WallHit(Self, Locals)
    /\ prevDir' = currentDir
    /\ UNCHANGED <<fields, frame>>

TraceNoHit ==
    /\ pc = "loop"
    /\ LoopCond(Locals, b)
    /\ TraceBranch(Self, Locals) = "none"
    /\ SetLocals(NoneBranch(Self, Locals))
    /\ iterations' = iterations + 1
    /\ UNCHANGED <<fields, frame, lastHit, prevDir>>

\* the loop condition fails
TraceLoopExit ==
    /\ pc = "loop"
    /\ ~LoopCond(Locals, b)
    /\ pc' = "return"
    /\ UNCHANGED <<fields, frame, locals, history>>

\* return path; the caller draws it and moves to the next bounce level
TraceReturn ==
    /\ pc = "return"
    /\ drawn' = Append(drawn, path)
    /\ b' = b + 1
    /\ pc' = "call"
    /\ UNCHANGED <<fields, aimDir, maxPredictionDistance, locals, history>>

Next ==
    \/ DrawPredictionsSkip
    \/ DrawPredictionsAim
    \/ TracePathCall
    \/ DrawPredictionsEnd
    \/ TraceBallHit
    \/ TraceWallHit
    \/ TraceNoHit
    \/ TraceLoopExit
    \/ TraceReturn

Spec == Init /\ [][Next]_vars

(***************************************************************************)
(* tracePath as a function of its arguments: the start position, the       *)
(* direction, the distance budget and the bounce levels are drawn          *)
(* directly, the budget also from values below the table diagonal, and the *)
(* for loop of drawPredictions applies tracePath at each level.            *)
(***************************************************************************)
Budgets == {Num(100), Num(250), Num(270), Num(300), Num(500), Num(1000), Num(2500)}

InitTrace ==
    /\ shell \in Shells
    /\ walls \in Tables
    /\ targetBalls \in BallLists(shell, walls)
    /\ cueBall \in {c \in Cues : InsideStrict(walls, c)}
    /\ \E o \in Offsets :
          mousePos = [x |-> RAdd(cueBall.x, Num(o[1])), y |-> RAdd(cueBall.y, Num(o[2]))]
    /\ ~(mousePos = cueBall)
    /\ maxBounces \in 0..MaxLevel
    /\ predictionLengthMultiplier = Num(1)
    /\ aimDir = calculateDirection(cueBall, mousePos)
    /\ maxPredictionDistance \in Budgets
    /\ b = 0
    /\ drawn = <<>>
    /\ pc = "call"
    /\ path = <<>>
    /\ currentPos = Null
    /\ currentDir = Null
    /\ remainingDistance = Zero
    /\ currentBounces = 0
    /\ iterations = 0
    /\ lastHit = Null
    /\ prevDir = Null
    /\ FrameReady

NextTrace ==
    \/ TracePathCall
    \/ DrawPredictionsEnd
    \/ TraceBallHit
    \/ TraceWallHit
    \/ TraceNoHit
    \/ TraceLoopExit
    \/ TraceReturn

SpecTrace == InitTrace /\ [][NextTrace]_vars

(***************************************************************************)
(* The overlay shells (overlay.js): the two-click boundary setup.  The     *)
(* handlers are functions of the overlay object o, a record of its fields; *)
(* sent collects the messages a handler passes to window.electronAPI and   *)
(* alerted records that it raised the "Invalid pocket positions" alert.    *)
(***************************************************************************)
MaxIpc == 2

\* window.electronAPI exists in the Electron shell only (preload script)
setSetupMode(o, isSetupMode) ==
    IF o.shell = "DesktopPoolOverlay"
    THEN [o EXCEPT !.sent = Append(@, [channel |-> "setup-mode-changed",
                                       isSetupMode |-> isSetupMode])]
    ELSE o

minimizeApp(o) ==
    IF o.shell = "DesktopPoolOverlay"
    THEN [o EXCEPT !.sent = Append(@, [channel |-> "minimize-app"])]
    ELSE o

\* the toggle button exists in PoolPredictionOverlay only
SetToggleBtnDisabled(o, flag) ==
    IF o.shell = "PoolPredictionOverlay" THEN [o EXCEPT !.toggleBtnDisabled = flag] ELSE o

\* mutant: startSetup keeps the walls of the previous setup
startSetup_KeepsWalls(o) ==
    LET n == [o EXCEPT !.setupMode = TRUE,
                       !.clickCount = 0,
                       !.topLeftPocket = Null,
                       !.bottomRightPocket = Null,
                       !.overlayEnabled = FALSE,
                       !.setupBtnDisabled = TRUE]
    IN  setSetupMode(SetToggleBtnDisabled(n, TRUE), TRUE)

startSetup(o) ==
    LET n == [o EXCEPT !.setupMode = TRUE,
                       !.clickCount = 0,
                       !.topLeftPocket = Null,
                       !.bottomRightPocket = Null,
                       !.walls = Null,
                       !.overlayEnabled = FALSE,
                       !.setupBtnDisabled = TRUE]
    IN  setSetupMode(SetToggleBtnDisabled(n, TRUE), TRUE)

clearBoundaries(o) ==
    LET n == [o EXCEPT !.setupMode = FALSE,
                       !.clickCount = 0,
                       !.topLeftPocket = Null,
                       !.bottomRightPocket = Null,
                       !.walls = Null,
                       !.overlayEnabled = FALSE,
                       !.setupBtnDisabled = FALSE]
    IN  setSetupMode(SetToggleBtnDisabled(n, TRUE), FALSE)

\* "Set default cue ball position (center-left of table)"
DefaultCueBall(w) ==
    [x |-> RAdd(w.left, RMul(RSub(w.right, w.left), Norm(1, 4))),
     y |-> RAdd(w.top, RMul(RSub(w.bottom, w.top), Norm(1, 2)))]

WallsOfPockets(o) ==
    [left |-> o.topLeftPocket.x, top |-> o.topLeftPocket.y,
     right |-> o.bottomRightPocket.x, bottom |-> o.bottomRightPocket.y]

\* mutant: only an inverted rectangle is rejected, an empty one is accepted
finishSetup_AcceptsEmpty(o) ==
    LET n == [o EXCEPT !.walls = WallsOfPockets(o)]
    IN  IF RLt(n.walls.right, n.walls.left) \/ RLt(n.walls.bottom, n.walls.top)
        THEN clearBoundaries([n EXCEPT !.alerted = TRUE])
        ELSE LET done == [n EXCEPT !.setupMode = FALSE,
                                   !.setupBtnDisabled = FALSE,
                                   !.overlayEnabled = TRUE,
                                   !.cueBall = DefaultCueBall(n.walls)]
             IN  setSetupMode(SetToggleBtnDisabled(done, FALSE), FALSE)

finishSetup(o) ==
    LET n == [o EXCEPT !.walls = WallsOfPockets(o)]
    IN  IF RLe(n.walls.right, n.walls.left) \/ RLe(n.walls.bottom, n.walls.top)
        THEN clearBoundaries([n EXCEPT !.alerted = TRUE])
        ELSE LET done == [n EXCEPT !.setupMode = FALSE,
                                   !.setupBtnDisabled = FALSE,
                                   !.overlayEnabled = TRUE,
                                   !.cueBall = DefaultCueBall(n.walls)]
             IN  setSetupMode(SetToggleBtnDisabled(done, FALSE), FALSE)

\* p is the click position the handler computes from the event
handleSetupClick(o, p) ==
    LET n == [o EXCEPT !.clickCount = @ + 1]
    IN  IF n.clickCount = 1 THEN [n EXCEPT !.topLeftPocket = p]
        ELSE IF n.clickCount = 2 THEN finishSetup([n EXCEPT !.bottomRightPocket = p])
        ELSE n

toggleOverlay(o) == [o EXCEPT !.overlayEnabled = ~@]

\* PoolPredictionOverlay takes positions relative to the canvas, the desktop
\* overlay takes clientX and clientY
EventPos(sh, rect, e) ==
    IF sh = "PoolPredictionOverlay"
    THEN [x |-> RSub(e.x, rect.left), y |-> RSub(e.y, rect.top)]
    ELSE e

\* the click listener of the desktop overlay, registered on document
documentClick(o, e) ==
    IF o.setupMode /\ ~o.isDragging THEN handleSetupClick(o, e) ELSE o

\* the click listener of PoolPredictionOverlay, registered on the canvas
canvasClick(o, rect, e) ==
    IF o.setupMode THEN handleSetupClick(o, EventPos(o.shell, rect, e)) ELSE o

\* a click on a control bubbles to document; only the desktop overlay listens there
Bubble(o, e) ==
    IF o.shell = "DesktopPoolOverlay" THEN documentClick(o, e) ELSE o

\* mutant: drawPredictions does not test walls
PredictionsEnabled_NoWallsTest(o) ==
    ~(~o.overlayEnabled \/ o.cueBall.x = NullNum \/ o.cueBall.y = NullNum)

\* the guard of drawPredictions of the overlay shells passes
PredictionsEnabled(o) ==
    ~(~o.overlayEnabled \/ IsNull(o.walls)
        \/ o.cueBall.x = NullNum \/ o.cueBall.y = NullNum)

\* what one call of animate renders
Frame(o, mouse) ==
    IF o.setupMode
    THEN [kind |-> "setupGuide", marker |-> ~IsNull(o.topLeftPocket)]
    ELSE [kind |-> "overlay",
          traced |-> IF PredictionsEnabled(o)
                     THEN ~RLt(calculateDirection(o.cueBall, mouse).length,
                               Num(MinAimLength))
                     ELSE FALSE,
          walls |-> o.walls,
          cueBall |-> o.cueBall]

\* the overlay object after its constructor
Constructed(sh) ==
    [shell |-> sh,
     setupMode |-> FALSE,
     clickCount |-> 0,
     topLeftPocket |-> Null,
     bottomRightPocket |-> Null,
     walls |-> Null,
     cueBall |-> [x |-> NullNum, y |-> NullNum],
     overlayEnabled |-> FALSE,
     isDragging |-> FALSE,
     setupBtnDisabled |-> FALSE,
     toggleBtnDisabled |-> FALSE,
     sent |-> <<>>,
     alerted |-> FALSE]

(***************************************************************************)
(* The Electron main process (main.js).                                    *)
(***************************************************************************)
\* mutant: the flag of the message is passed on without negation
onSetupModeChanged_NotNegated(win, isSetupMode) ==
    IF ~IsNull(win) THEN [win EXCEPT !.ignoreMouseEvents = isSetupMode] ELSE win

\* ipcMain.on('setup-mode-changed')
onSetupModeChanged(win, isSetupMode) ==
    IF ~IsNull(win) THEN [win EXCEPT !.ignoreMouseEvents = ~isSetupMode] ELSE win

Platforms == {"darwin", "win32"}

(***************************************************************************)
(* Events of the overlay shells.                                           *)
(***************************************************************************)
\* positions of a click on a control: activation by keyboard reports (0, 0)
ButtonPoints == {Pt(0, 0), Pt(500, 20)}

ClickPoints == {Pt(30, 30), Pt(390, 290)}

MovePoints == {Pt(300, 160)}

CanvasRects == {[left |-> Zero, top |-> Zero], [left |-> Num(10), top |-> Num(10)]}

CueInputs == {Num(200)}

tracer == <<targetBalls, frame, pc, locals, history>>

This ==
    [shell |-> shell,
     setupMode |-> setupMode,
     clickCount |-> clickCount,
     topLeftPocket |-> topLeftPocket,
     bottomRightPocket |-> bottomRightPocket,
     walls |-> walls,
     cueBall |-> cueBall,
     overlayEnabled |-> overlayEnabled,
     isDragging |-> isDragging,
     setupBtnDisabled |-> setupBtnDisabled,
     toggleBtnDisabled |-> toggleBtnDisabled,
     sent |-> <<>>,
     alerted |-> FALSE]

SetThis(n) ==
    /\ setupMode' = n.setupMode
    /\ clickCount' = n.clickCount
    /\ topLeftPocket' = n.topLeftPocket
    /\ bottomRightPocket' = n.bottomRightPocket
    /\ walls' = n.walls
    /\ cueBall' = n.cueBall
    /\ overlayEnabled' = n.overlayEnabled
    /\ isDragging' = n.isDragging
    /\ setupBtnDisabled' = n.setupBtnDisabled
    /\ toggleBtnDisabled' = n.toggleBtnDisabled

\* the page is loaded and its window, if it has one, is shown
Shown ==
    IF shell = "DesktopPoolOverlay"
    THEN app = "running" /\ ~IsNull(overlayWindow) /\ overlayWindow.visible
    ELSE TRUE

\* clicks of the pointer reach the page
PointerDelivered ==
    IF shell = "DesktopPoolOverlay"
    THEN Shown /\ ~overlayWindow.ignoreMouseEvents
    ELSE TRUE

\* what a dispatched event did to the setup
SetupOutcome(o, n) ==
    IF n.alerted THEN "rejected"
    ELSE IF n.clickCount = 2 /\ o.clickCount = 1 THEN "accepted"
    ELSE IF n.clickCount = 1 /\ o.clickCount = 0 /\ ~IsNull(n.topLeftPocket) THEN "first"
    ELSE "none"

\* the handlers of one event have run on the overlay object
Dispatch(n, target) ==
    /\ Len(ipc) + Len(n.sent) <= MaxIpc
    /\ SetThis(n)
    /\ ipc' = ipc \o n.sent
    /\ lastEvent' = [target |-> target, setup |-> SetupOutcome(This, n)]
    /\ frameLog' = NoFrame
    /\ UNCHANGED <<shell, mousePos, maxBounces, predictionLengthMultiplier,
                   canvasRect, overlayWindow, isOverlayVisible, platform, app,
                   tracer>>

\* the user clicks a pocket at p after the setup button
UserClick(p) ==
    IF sinceSetup.active /\ Len(sinceSetup.clicks) < 2
    THEN [sinceSetup EXCEPT !.clicks = Append(@, p)]
    ELSE NoSetup

SetupBtnClick ==
    /\ Shown
    /\ ~setupBtnDisabled
    /\ \E e \in ButtonPoints :
          Dispatch(Bubble(startSetup(This), e), "setupBtn")
    /\ sinceSetup' = [active |-> TRUE, clicks |-> <<>>]

ClearBtnClick ==
    /\ Shown
    /\ \E e \in ButtonPoints :
          Dispatch(Bubble(clearBoundaries(This), e), "clearBtn")
    /\ sinceSetup' = NoSetup

ToggleBtnClick ==
    /\ shell = "PoolPredictionOverlay"
    /\ ~toggleBtnDisabled
    /\ Dispatch(toggleOverlay(This), "toggleBtn")
    /\ sinceSetup' = NoSetup

MinimizeBtnClick ==
    /\ shell = "DesktopPoolOverlay"
    /\ Shown
    /\ \E e \in ButtonPoints :
          Dispatch(Bubble(minimizeApp(This), e), "minimizeBtn")
    /\ sinceSetup' = NoSetup

\* a click of the pointer anywhere else on the page of the desktop overlay
DocumentClick ==
    /\ shell = "DesktopPoolOverlay"
    /\ PointerDelivered
    /\ \E e \in ClickPoints :
          /\ Dispatch(documentClick(This, e), "page")
          /\ sinceSetup' = UserClick(e)

CanvasClick ==
    /\ shell = "PoolPredictionOverlay"
    /\ \E e \in ClickPoints :
          /\ Dispatch(canvasClick(This, canvasRect, e), "canvas")
          /\ sinceSetup' = UserClick(EventPos(shell, canvasRect, e))

DragHandleMouseDown ==
    /\ shell = "DesktopPoolOverlay"
    /\ PointerDelivered
    /\ ~isDragging
    /\ Dispatch([This EXCEPT !.isDragging = TRUE], "dragHandle")
    /\ sinceSetup' = NoSetup

\* the click that the browser dispatches on the drag handle after
\* mousedown and mouseup on it; it bubbles to the document click listener
DragHandleClick ==
    /\ shell = "DesktopPoolOverlay"
    /\ PointerDelivered
    /\ lastEvent.target = "dragHandle"
    /\ ~isDragging
    /\ \E e \in ButtonPoints :
          Dispatch(documentClick(This, e), "dragHandleClick")
    /\ sinceSetup' = NoSetup

MouseUp ==
    /\ shell = "DesktopPoolOverlay"
    /\ PointerDelivered
    /\ isDragging
    /\ isDragging' = FALSE
    /\ frameLog' = NoFrame
    /\ UNCHANGED <<shell, walls, cueBall, mousePos, maxBounces,
                   predictionLengthMultiplier, setupMode, clickCount,
                   topLeftPocket, bottomRightPocket, overlayEnabled,
                   setupBtnDisabled, toggleBtnDisabled, canvasRect, host,
                   lastEvent, sinceSetup, tracer>>

MouseMove ==
    /\ Shown
    /\ \E e \in MovePoints :
          /\ mousePos # EventPos(shell, canvasRect, e)
          /\ mousePos' = EventPos(shell, canvasRect, e)
    /\ frameLog' = NoFrame
    /\ UNCHANGED <<shell, walls, cueBall, maxBounces, predictionLengthMultiplier,
                   setup, canvasRect, host, lastEvent, sinceSetup, tracer>>

CueBallXInput ==
    /\ Shown
    /\ \E val \in CueInputs :
          /\ cueBall.x # val
          /\ Dispatch([This EXCEPT !.cueBall.x = val], "cueBallX")
    /\ sinceSetup' = NoSetup

CueBallYInput ==
    /\ Shown
    /\ \E val \in CueInputs :
          /\ cueBall.y # val
          /\ Dispatch([This EXCEPT !.cueBall.y = val], "cueBallY")
    /\ sinceSetup' = NoSetup

\* one animation frame
Animate ==
    /\ Shown
    /\ frameLog' = Frame(This, mousePos)
    /\ frameLog' # frameLog
    /\ UNCHANGED <<shell, walls, cueBall, mousePos, maxBounces,
                   predictionLengthMultiplier, setup, canvasRect, host,
                   lastEvent, sinceSetup, tracer>>

(***************************************************************************)
(* Events of the main process.                                             *)
(***************************************************************************)
Running == shell = "DesktopPoolOverlay" /\ app = "running"

mainOnly == <<shell, walls, cueBall, mousePos, maxBounces,
              predictionLengthMultiplier, setup, canvasRect, ghost, tracer>>

\* CommandOrControl+Shift+P
HotkeyToggle ==
    /\ Running
    /\ ~IsNull(overlayWindow)
    /\ IF isOverlayVisible
       THEN /\ overlayWindow' = [overlayWindow EXCEPT !.visible = FALSE]
            /\ isOverlayVisible' = FALSE
       ELSE /\ overlayWindow' = [overlayWindow EXCEPT !.visible = TRUE]
            /\ isOverlayVisible' = TRUE
    /\ UNCHANGED <<ipc, platform, app, mainOnly>>

IpcSetupModeChanged ==
    /\ Running
    /\ ipc # <<>>
    /\ Head(ipc).channel = "setup-mode-changed"
    /\ overlayWindow' = onSetupModeChanged(overlayWindow, Head(ipc).isSetupMode)
    /\ ipc' = Tail(ipc)
    /\ UNCHANGED <<isOverlayVisible, platform, app, mainOnly>>

IpcMinimizeApp ==
    /\ Running
    /\ ipc # <<>>
    /\ Head(ipc).channel = "minimize-app"
    /\ IF ~IsNull(overlayWindow)
       THEN /\ overlayWindow' = [overlayWindow EXCEPT !.visible = FALSE]
            /\ isOverlayVisible' = FALSE
       ELSE UNCHANGED <<overlayWindow, isOverlayVisible>>
    /\ ipc' = Tail(ipc)
    /\ UNCHANGED <<platform, app, mainOnly>>

\* the page goes away with its window: its object and its unhandled messages
Unload ==
    /\ SetThis(Constructed(shell))
    /\ mousePos' = Pt(0, 0)
    /\ ipc' = <<>>
    /\ lastEvent' = [target |-> "none", setup |-> "none"]
    /\ sinceSetup' = NoSetup
    /\ frameLog' = NoFrame
    /\ UNCHANGED <<shell, maxBounces, predictionLengthMultiplier, canvasRect, tracer>>

\* the window is closed: 'closed', then 'window-all-closed'
WindowClosed ==
    /\ Running
    /\ ~IsNull(overlayWindow)
    /\ overlayWindow' = Null
    /\ app' = (IF platform # "darwin" THEN "quit" ELSE app)
    /\ Unload
    /\ UNCHANGED <<isOverlayVisible, platform>>

\* app.on('activate')
Activate ==
    /\ Running
    /\ platform = "darwin"
    /\ IsNull(overlayWindow)
    /\ overlayWindow' = createOverlay
    /\ UNCHANGED <<isOverlayVisible, ipc, platform, app, mainOnly>>

\* CommandOrControl+Shift+Q
HotkeyQuit ==
    /\ Running
    /\ app' = "quit"
    /\ overlayWindow' = Null
    /\ Unload
    /\ UNCHANGED <<isOverlayVisible, platform>>

InitOverlay ==
    /\ shell \in {"DesktopPoolOverlay", "PoolPredictionOverlay"}
    /\ walls = Null
    /\ targetBalls = <<>>
    /\ cueBall = [x |-> NullNum, y |-> NullNum]
    /\ mousePos = Pt(0, 0)
    /\ maxBounces = 2
    /\ predictionLengthMultiplier = Num(3)
    /\ aimDir = Null
    /\ maxPredictionDistance = Zero
    /\ b = 0
    /\ drawn = <<>>
    /\ pc = "idle"
    /\ path = <<>>
    /\ currentPos = Null
    /\ currentDir = Null
    /\ remainingDistance = Zero
    /\ currentBounces = 0
    /\ iterations = 0
    /\ lastHit = Null
    /\ prevDir = Null
    /\ setupMode = FALSE
    /\ clickCount = 0
    /\ topLeftPocket = Null
    /\ bottomRightPocket = Null
    /\ overlayEnabled = FALSE
    /\ isDragging = FALSE
    /\ setupBtnDisabled = FALSE
    /\ toggleBtnDisabled \in (IF shell = "PoolPredictionOverlay" THEN BOOLEAN ELSE {FALSE})
    /\ canvasRect \in (IF shell = "PoolPredictionOverlay" THEN CanvasRects
                       ELSE {[left |-> Zero, top |-> Zero]})
    /\ overlayWindow = (IF shell = "DesktopPoolOverlay" THEN createOverlay ELSE Null)
    /\ isOverlayVisible = FALSE
    /\ ipc = <<>>
    /\ platform \in (IF shell = "DesktopPoolOverlay" THEN Platforms ELSE {"darwin"})
    /\ app = "running"
    /\ lastEvent = [target |-> "none", setup |-> "none"]
    /\ sinceSetup = NoSetup
    /\ frameLog = NoFrame

NextOverlay ==
    \/ SetupBtnClick
    \/ ClearBtnClick
    \/ ToggleBtnClick
    \/ MinimizeBtnClick
    \/ DocumentClick
    \/ CanvasClick
    \/ DragHandleMouseDown
    \/ MouseUp
    \/ DragHandleClick
    \/ MouseMove
    \/ CueBallXInput
    \/ CueBallYInput
    \/ Animate
    \/ HotkeyToggle
    \/ IpcSetupModeChanged
    \/ IpcMinimizeApp
    \/ WindowClosed
    \/ Activate
    \/ HotkeyQuit

SpecOverlay == InitOverlay /\ [][NextOverlay]_vars

(***************************************************************************)
(* Vocabulary of the properties.                                           *)
(***************************************************************************)
HasBounce(p) == "bounce" \in DOMAIN p /\ p.bounce

HasHitBall(p) == "hitBall" \in DOMAIN p

BounceCount(pth) == Cardinality({i \in DOMAIN pth : HasBounce(pth[i])})

InsideClosed(w, p) ==
    /\ RGe(p.x, w.left) /\ RLe(p.x, w.right)
    /\ RGe(p.y, w.top) /\ RLe(p.y, w.bottom)

RECURSIVE LengthFrom(_, _)
\* the sum of the lengths of the segments of pth from point i on
LengthFrom(pth, i) ==
    IF i >= Len(pth) THEN Zero
    ELSE RAdd(Hypot(RSub(pth[i + 1].x, pth[i].x), RSub(pth[i + 1].y, pth[i].y)),
              LengthFrom(pth, i + 1))

PathLength(pth) == LengthFrom(pth, 1)

\* a tracePath call of bounce level b is returning path
Returning == pc = "return"

Tracing == pc \in {"loop", "return"}

ScenarioTable == Walls(30, 30, 770, 570)

\* the projection of the centre of ball on the ray
Projection(pos, dir, ball) ==
    RAdd(RMul(RSub(ball.x, pos.x), dir.dx), RMul(RSub(ball.y, pos.y), dir.dy))

\* the distance of the centre of ball from the line of the ray (dir of length 1)
Perpendicular(pos, dir, ball) ==
    LET cross == RSub(RMul(RSub(ball.x, pos.x), dir.dy), RMul(RSub(ball.y, pos.y), dir.dx))
    IN  IF RLt(cross, Zero) THEN RNeg(cross) ELSE cross

\* the balls the ray strikes within maxDistance, excludeBall left out
Qualifying(balls, pos, dir, maxDistance, excludeBall) ==
    {i \in DOMAIN balls :
        /\ i # excludeBall
        /\ RGt(Projection(pos, dir, balls[i]), Zero)
        /\ RLt(Perpendicular(pos, dir, balls[i]), Num(2 * ballRadius))
        /\ RLt(Projection(pos, dir, balls[i]), maxDistance)}

\* sequence p is a prefix of sequence q
IsPrefix(p, q) == Len(p) <= Len(q) /\ \A i \in DOMAIN p : p[i] = q[i]

\* the edges of the boundary in the order in which the resolver tests them
Edges == <<"top", "bottom", "left", "right">>

\* the ray from pos in direction dir has a component toward edge e
Toward(dir, e) ==
    IF e = "top" THEN RLt(dir.dy, Zero)
    ELSE IF e = "bottom" THEN RGt(dir.dy, Zero)
    ELSE IF e = "left" THEN RLt(dir.dx, Zero)
    ELSE RGt(dir.dx, Zero)

\* where the ray crosses the line of edge e, and at which parameter t
Crossing(w, pos, dir, e) ==
    LET horizontal == e \in {"top", "bottom"}
        line == IF e = "top" THEN w.top ELSE IF e = "bottom" THEN w.bottom
                ELSE IF e = "left" THEN w.left ELSE w.right
        t == IF horizontal THEN RDiv(RSub(line, pos.y), dir.dy)
             ELSE RDiv(RSub(line, pos.x), dir.dx)
    IN  [t |-> t,
         x |-> IF horizontal THEN RAdd(pos.x, RMul(dir.dx, t)) ELSE line,
         y |-> IF horizontal THEN line ELSE RAdd(pos.y, RMul(dir.dy, t)),
         wall |-> IF horizontal THEN "horizontal" ELSE "vertical"]

\* edge e yields a valid candidate
ValidCandidate(w, pos, dir, maxDistance, e) ==
    /\ Toward(dir, e)
    /\ LET c == Crossing(w, pos, dir, e)
       IN  /\ RGt(c.t, Zero) /\ RLt(c.t, maxDistance)
           /\ IF e \in {"top", "bottom"}
              THEN RGe(c.x, w.left) /\ RLe(c.x, w.right)
              ELSE RGe(c.y, w.top) /\ RLe(c.y, w.bottom)

\* r is what the resolver has to return for the ray
IsNearestCandidate(r, w, pos, dir, maxDistance) ==
    LET valid == {k \in DOMAIN Edges : ValidCandidate(w, pos, dir, maxDistance, Edges[k])}
        t(k) == Crossing(w, pos, dir, Edges[k]).t
    IN  IF valid = {} THEN r = Null
        ELSE /\ ~IsNull(r)
             /\ \E k \in valid :
                   /\ r.edge = Edges[k]
                   /\ \A j \in valid : RLe(t(k), t(j)) /\ (t(j) = t(k) => k <= j)
                   /\ LET c == Crossing(w, pos, dir, Edges[k])
                      IN  /\ r.x = c.x /\ r.y = c.y
                          /\ r.distance = c.t /\ r.wall = c.wall

ValidWalls(w) == RGt(w.right, w.left) /\ RGt(w.bottom, w.top)

\* no 'setup-mode-changed' message is waiting for the main process
SetupModeDelivered == \A i \in DOMAIN ipc : ipc[i].channel # "setup-mode-changed"

(***************************************************************************)
(* C1: the path returned for bounce level b contains at most b points      *)
(* annotated bounce.                                                       *)
(***************************************************************************)
C1_BounceCountAtMostLevel ==
    Returning => BounceCount(path) <= b

(***************************************************************************)
(* C2: from an origin strictly inside the boundary, a level-0 trace        *)
(* returns at most 2 points, its terminal point is the first wall hit, the *)
(* first obstacle hit or the full-budget end point, and no point of the    *)
(* path lies outside the closed boundary rectangle.                        *)
(***************************************************************************)
C2_DirectShot ==
    (Returning /\ b = 0 /\ InsideStrict(walls, cueBall)
       /\ RGt(maxPredictionDistance, Zero)) =>
        LET s0 == TraceEnter(cueBall, aimDir, maxPredictionDistance)
            wallHit == WallHit(Self, s0)
            ballHit == BallHit(Self, s0)
            last == path[Len(path)]
            at(t) == [x |-> RAdd(cueBall.x, RMul(aimDir.dx, t)),
                      y |-> RAdd(cueBall.y, RMul(aimDir.dy, t))]
        IN  /\ Len(path) <= 2
            /\ \/ ~IsNull(wallHit) /\ last.x = wallHit.x /\ last.y = wallHit.y
               \/ ~IsNull(ballHit) /\ [x |-> last.x, y |-> last.y] = at(ballHit.distance)
               \/ [x |-> last.x, y |-> last.y] = at(maxPredictionDistance)
            /\ \A i \in DOMAIN path : InsideClosed(walls, path[i])

C2_Witness ==
    /\ Returning /\ b = 0 /\ InsideStrict(walls, cueBall)
    /\ Len(path) = 2 /\ ~HasBounce(path[2]) /\ ~HasHitBall(path[2])
    /\ InsideStrict(walls, path[2])

(***************************************************************************)
(* C3: the loop body of tracePath executes at most bounces + 1 times, the  *)
(* loop condition is false after that many executions, and the path has at *)
(* most bounces + 2 points.                                                *)
(***************************************************************************)
C3_BoundedIterations ==
    Tracing =>
        /\ iterations <= b + 1
        /\ Len(path) <= b + 2
        /\ (pc = "loop" /\ iterations = b + 1) => ~LoopCond(Locals, b)

C3_Witness ==
    Returning /\ b = MaxLevel /\ iterations = b + 1 /\ Len(path) = b + 2

(***************************************************************************)
(* C4: for a fixed boundary, origin, direction, obstacles and bounce       *)
(* level, a larger length multiplier (a larger distance budget) never      *)
(* gives a shorter path.                                                   *)
(***************************************************************************)
C4_MonotoneInBudget ==
    Returning =>
        LET traced(d) == PathLength(tracePath(Self, cueBall, aimDir, d, b))
        IN  /\ \A m2 \in Multipliers :
                  RLe(predictionLengthMultiplier, m2) =>
                      RLe(PathLength(path), traced(MaxPredictionDistance(walls, m2)))
            /\ \A d \in Budgets :
                  /\ RLe(maxPredictionDistance, d) => RLe(PathLength(path), traced(d))
                  /\ RLe(d, maxPredictionDistance) => RLe(traced(d), PathLength(path))

C4_Witness ==
    /\ Returning
    /\ \E m2 \in Multipliers :
          RLt(PathLength(path),
              PathLength(tracePath(Self, cueBall, aimDir,
                                   MaxPredictionDistance(walls, m2), b)))

(***************************************************************************)
(* C5: scenario A: on the 30,30,770,570 table, from (100,300) aimed at     *)
(* (100,0), the level-0 path is exactly [(100,300), (100,30)] and its      *)
(* terminal point carries no bounce annotation.                            *)
(***************************************************************************)
C5_ScenarioA ==
    (Returning /\ b = 0 /\ walls = ScenarioTable
       /\ cueBall = Pt(100, 300) /\ mousePos = Pt(100, 0)) =>
        path = <<Pt(100, 300), Pt(100, 30)>>

(***************************************************************************)
(* C6: scenario B: on the same table without obstacles, from (100,300)     *)
(* aimed at (770,300), the level-1 path has exactly one bounce point, at   *)
(* (770,300), and continues from it to the left.                           *)
(***************************************************************************)
C6_ScenarioB ==
    (Returning /\ b = 1 /\ walls = ScenarioTable /\ targetBalls = <<>>
       /\ cueBall = Pt(100, 300) /\ mousePos = Pt(770, 300)) =>
        /\ BounceCount(path) = 1
        /\ Len(path) >= 3
        /\ path[2] = [x |-> Num(770), y |-> Num(300), bounce |-> TRUE]
        /\ RLt(path[3].x, Num(770)) /\ path[3].y = Num(300)

(***************************************************************************)
(* C7: scenario C: with the single obstacle at (400,300), from (100,300)   *)
(* in direction (1,0), the path ends in an obstacle hit and is strictly    *)
(* shorter than the path traced with the same inputs and no obstacle.      *)
(***************************************************************************)
C7_ScenarioC ==
    (Returning /\ shell = "PoolEngine" /\ targetBalls = OneBall
       /\ cueBall = Pt(100, 300) /\ aimDir.dx = Num(1) /\ aimDir.dy = Zero) =>
        /\ HasHitBall(path[Len(path)])
        /\ RLt(PathLength(path),
               PathLength(tracePath([Self EXCEPT !.targetBalls = <<>>], cueBall,
                                    aimDir, maxPredictionDistance, b)))

C7_Witness ==
    /\ Returning /\ shell = "PoolEngine" /\ targetBalls = OneBall
    /\ cueBall = Pt(100, 300) /\ aimDir.dx = Num(1) /\ aimDir.dy = Zero
    /\ path[Len(path)] = [x |-> Num(400), y |-> Num(300), hitBall |-> 1]

C9_MirrorLaw ==
    /\ ~IsNull(aimDir) =>
          /\ reflectDirection(aimDir, "horizontal").dx = aimDir.dx
          /\ reflectDirection(aimDir, "horizontal").dy = RNeg(aimDir.dy)
          /\ reflectDirection(aimDir, "vertical").dx = RNeg(aimDir.dx)
          /\ reflectDirection(aimDir, "vertical").dy = aimDir.dy
    /\ (Tracing /\ ~IsNull(lastHit)) =>
          /\ lastHit.wall = "horizontal" <=> lastHit.edge \in {"top", "bottom"}
          /\ lastHit.wall = "vertical" <=> lastHit.edge \in {"left", "right"}
          /\ lastHit.edge = "top" => currentPos.y = walls.top
          /\ lastHit.edge = "bottom" => currentPos.y = walls.bottom
          /\ lastHit.edge = "left" => currentPos.x = walls.left
          /\ lastHit.edge = "right" => currentPos.x = walls.right
          /\ lastHit.edge \in {"top", "bottom"} =>
                currentDir.dx = prevDir.dx /\ currentDir.dy = RNeg(prevDir.dy)
          /\ lastHit.edge \in {"left", "right"} =>
                currentDir.dx = RNeg(prevDir.dx) /\ currentDir.dy = prevDir.dy

C9_Witness ==
    /\ Tracing /\ ~IsNull(lastHit) /\ lastHit.edge = "top"
    /\ ~(prevDir.dx = Zero) /\ currentBounces = 2

(***************************************************************************)
(* C10: every path of tracePath is non-empty, its first element has the    *)
(* coordinates of the start position and carries neither a bounce nor an   *)
(* obstacle-hit annotation.                                                *)
(***************************************************************************)
C10_FirstPointIsOrigin ==
    /\ Tracing =>
          /\ Len(path) >= 1
          /\ path[1].x = cueBall.x /\ path[1].y = cueBall.y
          /\ ~HasBounce(path[1]) /\ ~HasHitBall(path[1])
    /\ \A i \in DOMAIN drawn :
          /\ Len(drawn[i]) >= 1
          /\ drawn[i][1] = [x |-> cueBall.x, y |-> cueBall.y]

C10_Witness ==
    /\ Returning /\ Len(path) = 3 /\ Len(drawn) = 2
    /\ HasBounce(path[2]) /\ ~HasBounce(path[3])

(***************************************************************************)
(* C11: in every path of PoolEngine.tracePath a point annotated hitBall    *)
(* occurs at most once and only as the last element: while the loop is     *)
(* still running the path holds no such point, and in a returned path only *)
(* the last index can hold one.                                            *)
(***************************************************************************)
C11_HitBallOnlyLast ==
    Tracing =>
        \A i \in DOMAIN path :
            HasHitBall(path[i]) => (i = Len(path) /\ pc = "return")

C11_Witness ==
    /\ Returning /\ shell = "PoolEngine"
    /\ Len(path) >= 3 /\ HasHitBall(path[Len(path)]) /\ HasBounce(path[2])

(***************************************************************************)
(* C12: a prediction request with maxBounces = M whose aim is not          *)
(* degenerate traces exactly M + 1 paths, for the levels 0..M in           *)
(* increasing order, each from the cue ball in the aim direction with the  *)
(* budget that is the table diagonal times predictionLengthMultiplier.     *)
(***************************************************************************)
C12_OnePathPerLevel ==
    LET budget == MaxPredictionDistance(walls, predictionLengthMultiplier)
        level(i) == tracePath(Self, cueBall, aimDir, budget, i - 1)
    IN  /\ pc \in {"call", "loop", "return"} =>
              /\ Len(drawn) = b
              /\ b <= maxBounces + 1
              /\ maxPredictionDistance = budget
              /\ aimDir = calculateDirection(cueBall, mousePos)
              /\ \A i \in DOMAIN drawn : drawn[i] = level(i)
        /\ Tracing => b <= maxBounces
        /\ (pc = "frameDone" /\ ~RLt(aimDir.length, Num(MinAimLength))) =>
              /\ Len(drawn) = maxBounces + 1
              /\ \A i \in DOMAIN drawn : drawn[i] = level(i)

C12_Witness ==
    /\ pc = "frameDone" /\ maxBounces = MaxLevel /\ Len(drawn) = MaxLevel + 1
    /\ BounceCount(drawn[Len(drawn)]) > BounceCount(drawn[1])

(***************************************************************************)
(* C13: when the distance from the cue ball to the pointer is below 10,    *)
(* zero included, drawPredictions of every shell traces no path and draws  *)
(* nothing, and the frame ends normally.                                   *)
(***************************************************************************)
C13_ShortAimTracesNothing ==
    RLt(calculateDirection(cueBall, mousePos).length, Num(MinAimLength)) =>
        /\ pc \in {"idle", "frameDone"}
        /\ drawn = <<>>
        /\ path = <<>>
        /\ iterations = 0

C13_Witness ==
    /\ pc = "frameDone" /\ drawn = <<>>
    /\ RGt(aimDir.length, Zero) /\ RLt(aimDir.length, Num(MinAimLength))

(***************************************************************************)
(* C14: calculateDirection(from, to) with from equal to to yields length 0 *)
(* and divides nothing by that length, so dx and dy are numbers.           *)
(***************************************************************************)
C14_NoDivisionByZero ==
    (~IsNull(aimDir) /\ mousePos = cueBall) =>
        /\ aimDir.length = Zero
        /\ ~IsNaN(aimDir.dx)
        /\ ~IsNaN(aimDir.dy)

(***************************************************************************)
(* C15: in both overlay shells the walls are null or have right > left and *)
(* bottom > top in every state between two handlers, so every frame that   *)
(* draws or traces with walls uses a valid rectangle; a second setup click *)
(* that is not strictly right of and below the first leaves walls null,    *)
(* overlayEnabled false and setupMode false, and the frames after it trace *)
(* nothing.                                                                *)
(***************************************************************************)
C15_BoundaryValidity ==
    /\ ~IsNull(walls) => ValidWalls(walls)
    /\ (frameLog.kind = "overlay" /\ ~IsNull(frameLog.walls)) =>
          ValidWalls(frameLog.walls)
    /\ (frameLog.kind = "overlay" /\ frameLog.traced) =>
          (~IsNull(frameLog.walls) /\ ValidWalls(frameLog.walls))
    /\ lastEvent.setup = "rejected" =>
          /\ walls = Null
          /\ ~overlayEnabled
          /\ ~setupMode
          /\ frameLog.kind = "overlay" => ~frameLog.traced

C15_Witness ==
    /\ lastEvent.setup = "rejected"
    /\ frameLog.kind = "overlay"
    /\ cueBall.x # NullNum /\ cueBall.y # NullNum

(***************************************************************************)
(* C16: after the setup button is clicked and the user then clicks the     *)
(* top-left pocket at (x1, y1) and the bottom-right pocket at (x2, y2)     *)
(* with x2 > x1 and y2 > y1, the overlay has left setup mode with walls    *)
(* {left: x1, top: y1, right: x2, bottom: y2}, overlayEnabled true and the *)
(* cue ball at (x1 + 0.25 (x2 - x1), y1 + 0.5 (y2 - y1)).                  *)
(***************************************************************************)
C16_TwoClickSetup ==
    (sinceSetup.active /\ Len(sinceSetup.clicks) = 2) =>
        LET p1 == sinceSetup.clicks[1]
            p2 == sinceSetup.clicks[2]
            w == [left |-> p1.x, top |-> p1.y, right |-> p2.x, bottom |-> p2.y]
        IN  (RGt(p2.x, p1.x) /\ RGt(p2.y, p1.y)) =>
                /\ ~setupMode
                /\ walls = w
                /\ overlayEnabled
                /\ cueBall = [x |-> RAdd(p1.x, RMul(Norm(1, 4), RSub(p2.x, p1.x))),
                              y |-> RAdd(p1.y, RMul(Norm(1, 2), RSub(p2.y, p1.y)))]

(***************************************************************************)
(* C17: in the desktop overlay, when the click on the setup button has     *)
(* been dispatched to the handler of the button and to the click handler   *)
(* of document, the overlay is in step 1 of 2: setupMode is true,          *)
(* clickCount is 0 and topLeftPocket is null.                              *)
(***************************************************************************)
C17_ButtonClickStartsStepOne ==
    (shell = "DesktopPoolOverlay" /\ lastEvent.target = "setupBtn") =>
        /\ setupMode
        /\ clickCount = 0
        /\ IsNull(topLeftPocket)

C19_VisibleIffShown ==
    Running =>
        (isOverlayVisible <=> (~IsNull(overlayWindow) /\ overlayWindow.visible))

(***************************************************************************)
(* C20: tracePath has no side effect and is deterministic: a step of a     *)
(* call leaves the start position, the direction, the walls and the target *)
(* balls unchanged, and the path a call returns is the value of tracePath  *)
(* on its arguments whatever calls were made before it in the frame.       *)
(***************************************************************************)
C20_TracePathPure ==
    [][(pc \in {"call", "loop"}) =>
          (/\ cueBall' = cueBall
           /\ aimDir' = aimDir
           /\ walls' = walls
           /\ targetBalls' = targetBalls
           /\ (pc' = "return") =>
                 (path' = tracePath(Self, cueBall, aimDir, maxPredictionDistance, b)))]_vars

C20_Witness ==
    /\ Returning /\ b = MaxLevel /\ Len(drawn) = MaxLevel
    /\ BounceCount(path) > BounceCount(drawn[1])

C22_NearestValidCandidate ==
    pc = "loop" =>
        \A d \in Budgets \cup {remainingDistance} :
            IsNearestCandidate(findWallIntersection(walls, currentPos, currentDir, d),
                               walls, currentPos, currentDir, d)

C22_Witness ==
    /\ pc = "loop"
    /\ \E j, k \in DOMAIN Edges :
          /\ j < k
          /\ ValidCandidate(walls, currentPos, currentDir, remainingDistance, Edges[j])
          /\ ValidCandidate(walls, currentPos, currentDir, remainingDistance, Edges[k])
          /\ Crossing(walls, currentPos, currentDir, Edges[j]).t
                = Crossing(walls, currentPos, currentDir, Edges[k]).t
          /\ WallHit(Self, Locals).edge = Edges[j]

(***************************************************************************)
(* C23: findBallIntersection returns the target ball of smallest           *)
(* projection among the balls that are not excludeBall, have a positive    *)
(* projection, lie less than 2 * ballRadius from the ray and have a        *)
(* projection below maxDistance, with that projection as the distance; it  *)
(* returns null when no ball qualifies.                                    *)
(***************************************************************************)
C23_NearestQualifyingBall ==
    (pc = "loop" /\ shell = "PoolEngine") =>
        \A ex \in 0..Len(targetBalls) :
            \A d \in Budgets \cup {remainingDistance} :
                LET r == findBallIntersection(targetBalls, currentPos, currentDir, d, ex)
                    q == Qualifying(targetBalls, currentPos, currentDir, d, ex)
                    proj(i) == Projection(currentPos, currentDir, targetBalls[i])
                IN  IF q = {} THEN r = Null
                    ELSE /\ ~IsNull(r)
                         /\ r.ball \in q
                         /\ r.distance = proj(r.ball)
                         /\ \A j \in q : RLe(proj(r.ball), proj(j))

C23_Witness ==
    /\ pc = "loop" /\ shell = "PoolEngine" /\ Len(path) >= 2
    /\ LET r == BallHit(Self, Locals)
       IN  /\ ~IsNull(r)
           /\ findBallIntersection(targetBalls, currentPos, currentDir,
                                   remainingDistance, r.ball) = Null

(***************************************************************************)
(* C24: a step of PoolEngine.tracePath takes the obstacle branch iff an    *)
(* obstacle hit exists and either no wall hit exists or the obstacle is    *)
(* strictly nearer than the wall hit; at equal distance the wall bounce is *)
(* taken; the point appended lies on the ray at the distance of the branch *)
(* taken, which is not beyond the nearest of the two events.               *)
(***************************************************************************)
C24_NearerEventFirst ==
    (pc = "loop" /\ LoopCond(Locals, b) /\ shell = "PoolEngine") =>
        LET ballHit == BallHit(Self, Locals)
            wallHit == WallHit(Self, Locals)
            after == TraceStep(Self, Locals)
            p == after.path[Len(after.path)]
            t == IF HasHitBall(p) THEN ballHit.distance
                 ELSE IF HasBounce(p) THEN wallHit.distance
                 ELSE remainingDistance
        IN  /\ Len(after.path) = Len(path) + 1
            /\ HasHitBall(p) <=>
                  (~IsNull(ballHit)
                     /\ (IsNull(wallHit) \/ RLt(ballHit.distance, wallHit.distance)))
            /\ (~IsNull(ballHit) /\ ~IsNull(wallHit)
                  /\ ballHit.distance = wallHit.distance) => HasBounce(p)
            /\ HasBounce(p) => ~IsNull(wallHit)
            /\ p.x = RAdd(currentPos.x, RMul(currentDir.dx, t))
            /\ p.y = RAdd(currentPos.y, RMul(currentDir.dy, t))
            /\ ~IsNull(ballHit) => RLe(t, ballHit.distance)
            /\ ~IsNull(wallHit) => RLe(t, wallHit.distance)

C24_Witness ==
    /\ pc = "loop" /\ LoopCond(Locals, b) /\ shell = "PoolEngine"
    /\ ~IsNull(BallHit(Self, Locals)) /\ ~IsNull(WallHit(Self, Locals))
    /\ BallHit(Self, Locals).distance = WallHit(Self, Locals).distance

(***************************************************************************)
(* C25: after every loop iteration of tracePath remainingDistance plus the *)
(* total length of the segments appended so far equals the initial         *)
(* maxDistance.                                                            *)
(***************************************************************************)
C25_BudgetConserved ==
    Tracing => RAdd(remainingDistance, PathLength(path)) = maxPredictionDistance

(***************************************************************************)
(* C25 (amended): the sum is conserved after every wall-bounce iteration,  *)
(* that is whenever the loop goes on; the length of a returned path never  *)
(* exceeds maxDistance and equals it exactly when the trace ended in the   *)
(* no-intersection branch.                                                 *)
(***************************************************************************)
C25_BudgetConservedWhileLooping ==
    /\ pc = "loop" =>
          /\ RAdd(remainingDistance, PathLength(path)) = maxPredictionDistance
          /\ RGt(remainingDistance, Zero)
    /\ Returning =>
          LET last == path[Len(path)]
              noIntersection == Len(path) >= 2 /\ ~HasBounce(last) /\ ~HasHitBall(last)
          IN  /\ RLe(PathLength(path), maxPredictionDistance)
              /\ (PathLength(path) = maxPredictionDistance) <=> noIntersection

C25_Witness ==
    /\ pc = "loop" /\ BounceCount(path) = MaxLevel
    /\ RLt(remainingDistance, maxPredictionDistance)

(***************************************************************************)
(* C26: for fixed boundary, obstacles, start, direction and maxDistance    *)
(* the path of bounce level b is a prefix of the path of level b + 1,      *)
(* which has at most one point more.                                       *)
(***************************************************************************)
C26_LevelsNested ==
    /\ Returning =>
          LET next == tracePath(Self, cueBall, aimDir, maxPredictionDistance, b + 1)
          IN  IsPrefix(path, next) /\ Len(next) <= Len(path) + 1
    /\ \A i \in DOMAIN drawn :
          i > 1 => (IsPrefix(drawn[i - 1], drawn[i])
                      /\ Len(drawn[i]) <= Len(drawn[i - 1]) + 1)

C26_Witness ==
    /\ pc = "frameDone" /\ Len(drawn) = MaxLevel + 1
    /\ \A i \in DOMAIN drawn : i > 1 => Len(drawn[i]) = Len(drawn[i - 1]) + 1
    /\ targetBalls # <<>>

(***************************************************************************)
(* C27: for a valid boundary, a start position inside it and a positive    *)
(* distance budget, every point of the path returned by tracePath lies     *)
(* within the closed rectangle [left, right] x [top, bottom], also when a  *)
(* wall hit falls exactly on a corner.                                     *)
(***************************************************************************)
C27_PathInsideTable ==
    (Returning /\ ValidWalls(walls) /\ InsideClosed(walls, cueBall)
       /\ RGt(maxPredictionDistance, Zero)) =>
        \A i \in DOMAIN path : InsideClosed(walls, path[i])

(***************************************************************************)
(* C28: in both overlay shells a frame traces only if setupMode is false,  *)
(* overlayEnabled is true, walls is non-null and both coordinates of the   *)
(* cue ball are non-null; no frame traces while walls is null.             *)
(***************************************************************************)
C28_TraceOnlyWhenReady ==
    (frameLog.kind = "overlay" /\ frameLog.traced) =>
        /\ ~setupMode
        /\ overlayEnabled
        /\ ~IsNull(walls) /\ frameLog.walls = walls
        /\ cueBall.x # NullNum /\ cueBall.y # NullNum
        /\ frameLog.cueBall = cueBall

C28_Witness ==
    /\ frameLog.kind = "overlay" /\ frameLog.traced
    /\ lastEvent.target \in {"cueBallX", "cueBallY"}

(***************************************************************************)
(* C30: in both overlay shells, in every state between two event          *)
(* handlers, setupMode implies walls null, overlayEnabled false and        *)
(* clickCount 0 or 1, with topLeftPocket non-null exactly when clickCount  *)
(* is 1 and bottomRightPocket null; and walls non-null implies both        *)
(* pockets non-null and setupMode false.                                   *)
(***************************************************************************)
C30_SetupStateConsistent ==
    /\ setupMode =>
          /\ IsNull(walls)
          /\ ~overlayEnabled
          /\ clickCount \in {0, 1}
          /\ ~IsNull(topLeftPocket) <=> clickCount = 1
          /\ IsNull(bottomRightPocket)
    /\ ~IsNull(walls) =>
          /\ ~IsNull(topLeftPocket)
          /\ ~IsNull(bottomRightPocket)
          /\ ~setupMode

C30_Witness ==
    /\ setupMode /\ clickCount = 1 /\ lastEvent.target \in {"page", "canvas"}
    /\ isDragging = FALSE

(***************************************************************************)
(* C29: in the desktop overlay, in setup mode, no step of a drag gesture   *)
(* on the drag handle (mousedown on the handle, mouseup, click on the      *)
(* handle) changes clickCount, topLeftPocket or bottomRightPocket.         *)
(***************************************************************************)
C29_DragIsNotAPocketClick ==
    [][(/\ shell = "DesktopPoolOverlay"
        /\ setupMode
        /\ \/ ~isDragging /\ isDragging'
           \/ isDragging /\ ~isDragging' /\ lastEvent' = lastEvent
           \/ lastEvent.target = "dragHandle" /\ lastEvent'.target = "dragHandleClick")
       => (/\ clickCount' = clickCount
           /\ topLeftPocket' = topLeftPocket
           /\ bottomRightPocket' = bottomRightPocket)]_vars

=============================================================================
